---- MODULE Spec2Model ----
(***************************************************************************)
(* Competitor INCI Explorer (src/competitor_inci_explorer.py).             *)
(*                                                                         *)
(* A Streamlit script: every user interaction re-executes it from the top. *)
(* One run loads the four worksheets through st.cache_data, reads the      *)
(* sidebar filters, handles the "Add Competitor Product" form, and renders *)
(* the explore view and the ingredient-frequency table.                    *)
(*                                                                         *)
(* Text is a sequence of one-character strings, so that splitting,         *)
(* stripping and lower-casing are computed character by character.         *)
(***************************************************************************)
EXTENDS Integers, Sequences, FiniteSets, TLC

VARIABLES
    sheet,      \* the spreadsheet: tab name -> rows under the header row
    cache,      \* st.cache_data entries of load_tab: tab name -> [valid, rows]
    pc,         \* position of the script run
    idx,        \* which of the four load_tab calls of lines 143-146 is next
    df,         \* the run's dataframes: tab name -> rows
    form,       \* the form's widgets: submitted, brand_name, prod_name, inci_raw
    sel,        \* the sidebar's selections: sel_cat_q, sel_ptype_q
    tokens,     \* the submission's tokens (line 189)
    ui,         \* the messages this run has shown
    freq,       \* the frequency table this run has rendered
    lastCall,   \* the latest with_backoff call: outcomes offered, invocations, result
    pre         \* the spreadsheet as it was when this run began

vars == <<sheet, cache, pc, idx, df, form, sel, tokens, ui, freq, lastCall, pre>>

(***************************************************************************)
(* Bounds of the model.                                                    *)
(***************************************************************************)
MaxLen == 4      \* longest raw text the tokenizer is run on (SpecTok)
MaxJoin == 3     \* most Product_Ingredients rows of a frequency scenario (SpecFreq)
MaxRows == 3     \* most Ingredients rows the spreadsheet is grown to (Spec)

(***************************************************************************)
(* Characters.  Ascii lists the characters the model uses in code-point    *)
(* order; Python compares and lower-cases strings by code point.           *)
(***************************************************************************)
Ascii ==
    << "\t", "\n", "\f", "\r", " ", ",",
       "A","B","C","D","E","F","G","H","I","J","K","L","M",
       "N","O","P","Q","R","S","T","U","V","W","X","Y","Z",
       "a","b","c","d","e","f","g","h","i","j","k","l","m",
       "n","o","p","q","r","s","t","u","v","w","x","y","z" >>

Ord(c) == CHOOSE i \in 1..Len(Ascii) : Ascii[i] = c

FirstUpper == Ord("A")

\* str.lower() on one character
LowerChar(c) ==
    IF Ord(c) >= FirstUpper /\ Ord(c) < FirstUpper + 26
    THEN Ascii[Ord(c) + 26]
    ELSE c

\* str.lower()
Lower(s) == [i \in 1..Len(s) |-> LowerChar(s[i])]

\* the characters str.strip() removes
Whitespace == {" ", "\t", "\n", "\r", "\f"}

MinOf(S) == CHOOSE x \in S : \A y \in S : x <= y
MaxOf(S) == CHOOSE x \in S : \A y \in S : x >= y

(***************************************************************************)
(* Split INCI list (lines 188-194).                                        *)
(***************************************************************************)
\* str.replace(old, new) for one-character old and new
Replace(s, old, new) == [i \in 1..Len(s) |-> IF s[i] = old THEN new ELSE s[i]]

\* str.split(sep): the pieces between the separators, empty pieces included
RECURSIVE Split(_, _)
Split(s, sep) ==
    LET hits == {i \in 1..Len(s) : s[i] = sep} IN
    IF hits = {} THEN <<s>>
    ELSE LET k == MinOf(hits) IN
         <<SubSeq(s, 1, k - 1)>> \o Split(SubSeq(s, k + 1, Len(s)), sep)

RECURSIVE LStrip(_)
LStrip(s) ==
    IF s # <<>> /\ Head(s) \in Whitespace THEN LStrip(Tail(s)) ELSE s

RECURSIVE RStrip(_)
RStrip(s) ==
    IF s # <<>> /\ s[Len(s)] \in Whitespace
    THEN RStrip(SubSeq(s, 1, Len(s) - 1))
    ELSE s

StripLeftOnly(s) == LStrip(s)

\* str.strip()
Strip(s) == RStrip(LStrip(s))

\* the inner loop of lines 191-194 over the parts of one line
RECURSIVE TokensOfParts(_)
TokensOfParts(parts) ==
    IF parts = <<>> THEN <<>>
    ELSE LET name == Strip(Head(parts)) IN
         (IF name # <<>> THEN <<name>> ELSE <<>>) \o TokensOfParts(Tail(parts))

\* the outer loop of line 190 over the lines
RECURSIVE TokensOfLines(_)
TokensOfLines(lines) ==
    IF lines = <<>> THEN <<>>
    ELSE TokensOfParts(Split(Head(lines), ",")) \o TokensOfLines(Tail(lines))

Tokenize(inci_raw) == TokensOfLines(Split(Replace(inci_raw, "\r", "\n"), "\n"))

(***************************************************************************)
(* The spreadsheet (lines 78-83).  A row is a record keyed by the header   *)
(* row of its tab.  A cell that holds the numeral written by str(int) is   *)
(* represented by the number: pd.to_numeric (line 101) reads it back.      *)
(***************************************************************************)
Tabs == {"Brands", "Products", "Ingredients", "Product_Ingredients"}

\* the order of the four load_tab calls (lines 143-146)
TabOrder == <<"Brands", "Products", "Ingredients", "Product_Ingredients">>

TEMPLATE ==
    [t \in Tabs |->
        CASE t = "Brands" -> {"id", "name"}
          [] t = "Products" ->
                {"id", "brand_id", "product_name", "category", "product_type", "notes"}
          [] t = "Ingredients" -> {"id", "inci_name", "default_function", "cas"}
          [] t = "Product_Ingredients" ->
                {"id", "product_id", "ingredient_id", "inci_name_raw",
                 "function_override", "percentage", "notes"}]

FUNCTION_MAP ==
    {  [key |-> <<"a","q","u","a">>,
        val |-> "Solvent"],
       [key |-> <<"w","a","t","e","r">>,
        val |-> "Solvent"],
       [key |-> <<"g","l","y","c","e","r","i","n">>,
        val |-> "Humectant"],
       [key |-> <<"b","u","t","y","l","e","n","e"," ","g","l","y","c","o","l">>,
        val |-> "Humectant"],
       [key |-> <<"d","i","m","e","t","h","i","c","o","n","e">>,
        val |-> "Emollient"],
       [key |-> <<"c","y","c","l","o","p","e","n","t","a","s","i","l","o","x","a","n","e">>,
        val |-> "Emollient"],
       [key |-> <<"t","i","t","a","n","i","u","m"," ","d","i","o","x","i","d","e">>,
        val |-> "UV Filter"],
       [key |-> <<"e","t","h","y","l","h","e","x","y","l"," ",
                  "m","e","t","h","o","x","y","c","i","n","n","a","m","a","t","e">>,
        val |-> "UV Filter"],
       [key |-> <<"p","h","e","n","o","x","y","e","t","h","a","n","o","l">>,
        val |-> "Preservative"],
       [key |-> <<"e","t","h","y","l","h","e","x","y","l","g","l","y","c","e","r","i","n">>,
        val |-> "Preservative booster"] }

\* FUNCTION_MAP.get(key, default)
FunctionMapGet(key, default) ==
    IF \E e \in FUNCTION_MAP : e.key = key
    THEN (CHOOSE e \in FUNCTION_MAP : e.key = key).val
    ELSE default

\* the function looked up under the name as typed, not lower-cased
DefaultFunctionAsTyped(inci_norm) == FunctionMapGet(inci_norm, "")

\* func = FUNCTION_MAP.get(inci_norm.lower(), "")   (lines 214, 222)
DefaultFunction(inci_norm) == FunctionMapGet(Lower(inci_norm), "")

(***************************************************************************)
(* with_backoff (lines 54-64).  The wrapped function is what the backing   *)
(* store makes of it: outs[k] is the outcome of its k-th invocation.  An   *)
(* outcome is success, a gspread APIError or any other exception; has429   *)
(* says whether "429" occurs in str(e).                                    *)
(***************************************************************************)
Ok == [kind |-> "ok", has429 |-> FALSE]

Errors == [kind : {"APIError", "Exception"}, has429 : BOOLEAN]

Outcomes == {Ok} \cup Errors

\* a retry on every APIError, whatever its text
WithBackoffAnyApiError(outs) ==
    IF outs[1].kind = "APIError"
    THEN [result |-> outs[2], invoked |-> 2, slept |-> TRUE]
    ELSE [result |-> outs[1], invoked |-> 1, slept |-> FALSE]

WithBackoff(outs) ==
    IF outs[1].kind = "ok"
    THEN [result |-> Ok, invoked |-> 1, slept |-> FALSE]
    ELSE IF outs[1].kind = "APIError" /\ outs[1].has429
         THEN [result |-> outs[2], invoked |-> 2, slept |-> TRUE]
         ELSE [result |-> outs[1], invoked |-> 1, slept |-> FALSE]

\* what a with_backoff call leaves to be seen: the outcomes the store gave to the
\* invocations made, and what the caller got
Observed(fn, outs) ==
    LET r == WithBackoff(outs) IN
    [fn |-> fn, invoked |-> r.invoked, slept |-> r.slept, result |-> r.result,
     outs |-> SubSeq(outs, 1, r.invoked)]

NoCall == [fn |-> "none", invoked |-> 0, slept |-> FALSE, result |-> Ok, outs |-> <<>>]

(***************************************************************************)
(* append_row (lines 104-107): the row dict projected on the header row.   *)
(***************************************************************************)
RowValues(tab, row) ==
    [h \in TEMPLATE[tab] |-> IF h \in DOMAIN row THEN row[h] ELSE ""]

(***************************************************************************)
(* The cache of load_tab (st.cache_data(ttl=60), line 85).                 *)
(***************************************************************************)
NoEntry == [valid |-> FALSE, rows |-> <<>>]

EmptyCache == [t \in Tabs |-> NoEntry]

EmptyDf == [t \in Tabs |-> <<>>]

(***************************************************************************)
(* Messages of the run.                                                    *)
(***************************************************************************)
\* st.success(f"Saved product '{prod_name}' with {len(tokens)} ingredients.")
Saved(n) == [kind |-> "success", n |-> n]

\* st.error(f"Failed to save: {e}")   (line 202)
FailedToSave == [kind |-> "failed_to_save", n |-> 0]

\* st.error(f"Could not connect/load: {e}")   (line 148)
CouldNotLoad == [kind |-> "could_not_load", n |-> 0]

\* an exception that leaves the script: Streamlit shows it and the run ends
Uncaught == [kind |-> "exception", n |-> 0]

(***************************************************************************)
(* Ingredient linking (lines 206-226).                                     *)
(***************************************************************************)
\* next_ing_id = 1 if df_ings.empty else the largest id (line 207), not incremented
NextIdNoIncrement(rows) ==
    IF rows = <<>> THEN 1 ELSE MaxOf({rows[i].id : i \in 1..Len(rows)})

\* 1 if df.empty else int(pd.to_numeric(df["id"]).max()) + 1   (lines 207-208)
NextId(rows) ==
    IF rows = <<>> THEN 1 ELSE MaxOf({rows[i].id : i \in 1..Len(rows)}) + 1

\* the catalog rows whose name is the token, letter case included
RowMatchCaseSensitive(df_ings, inci_norm) ==
    LET Same(r) == r.inci_name = inci_norm IN SelectSeq(df_ings, Same)

\* df_ings[df_ings["inci_name"].str.lower() == inci_norm.lower()]   (line 212)
RowMatch(df_ings, inci_norm) ==
    LET Same(r) == Lower(r.inci_name) = Lower(inci_norm) IN SelectSeq(df_ings, Same)

\* the dict of lines 215-216
NewIngredient(id, inci_norm) ==
    [id |-> id, inci_name |-> inci_norm,
     default_function |-> DefaultFunction(inci_norm), cas |-> ""]

(***************************************************************************)
(* st.cache_data.clear() (lines 138, 198, 244).                            *)
(***************************************************************************)
\* the entries left as they are
CacheKept == cache

ClearedCache == EmptyCache

(***************************************************************************)
(* Sidebar filters (lines 154-165).                                        *)
(***************************************************************************)
None == "<None>"

All == "(All)"

\* Python truthiness of sel_cat_q and sel_ptype_q (lines 160, 256-257, 282-283)
Truthy(v) == v # None /\ v # ""

\* None if sel == "(All)" else sel   (lines 158, 165)
Query(selected) == IF selected = All THEN None ELSE selected

\* the options of the Category selectbox (line 156)
CatOptions(df_prods) ==
    {All} \cup {df_prods[i].category : i \in {k \in 1..Len(df_prods) : df_prods[k].category # ""}}

\* the options of the Product Type selectbox (lines 160-163)
TypeOptions(df_prods, sel_cat_q) ==
    {All} \cup
    {df_prods[i].product_type :
        i \in {k \in 1..Len(df_prods) : Truthy(sel_cat_q) => df_prods[k].category = sel_cat_q}}

NoSel == [cat |-> None, ptype |-> None]

(***************************************************************************)
(* Ingredient frequency (lines 281-287).                                   *)
(***************************************************************************)
\* a cell a left merge leaves empty
NaN == "<NaN>"

NaNName == <<NaN>>

RECURSIVE Flatten(_)
Flatten(ss) == IF ss = <<>> THEN <<>> ELSE Head(ss) \o Flatten(Tail(ss))

\* df_pi.merge(df_prods, left_on="product_id", right_on="id", how="left")   (line 281)
MergeProducts(df_pi, df_prods) ==
    LET Of(j) ==
            LET Hit(p) == p.id = j.product_id
                m == SelectSeq(df_prods, Hit)
            IN  IF m = <<>>
                THEN <<[product_id |-> j.product_id, ingredient_id |-> j.ingredient_id,
                        category |-> NaN, product_type |-> NaN]>>
                ELSE [k \in 1..Len(m) |->
                        [product_id |-> j.product_id, ingredient_id |-> j.ingredient_id,
                         category |-> m[k].category, product_type |-> m[k].product_type]]
    IN  Flatten([i \in 1..Len(df_pi) |-> Of(df_pi[i])])

\* the two filters of lines 282-283
InScope(fi, s) ==
    LET Keep(r) == /\ (Truthy(s.cat) => r.category = s.cat)
                   /\ (Truthy(s.ptype) => r.product_type = s.ptype)
    IN  SelectSeq(fi, Keep)

\* the number of rows of the group: every occurrence counted
CountRows(rows) == Len(rows)

\* Count=("product_id", "nunique")   (line 285)
NUnique(rows) == Cardinality({rows[i].product_id : i \in 1..Len(rows)})

\* a set of numbers in ascending order
RECURSIVE Ascending(_)
Ascending(S) ==
    IF S = {} THEN <<>> ELSE <<MinOf(S)>> \o Ascending(S \ {MinOf(S)})

\* fi.groupby("ingredient_id").agg(...).reset_index()   (line 285)
GroupBy(fi) ==
    LET ids == Ascending({fi[i].ingredient_id : i \in 1..Len(fi)})
        Group(g) == LET In(r) == r.ingredient_id = g IN SelectSeq(fi, In)
    IN  [k \in 1..Len(ids) |-> [ingredient_id |-> ids[k], Count |-> NUnique(Group(ids[k]))]]

\* freq.merge(df_ings, left_on="ingredient_id", right_on="id", how="left") and the
\* three columns kept   (lines 286-287)
MergeIngredients(grouped, df_ings) ==
    LET Of(g) ==
            LET Hit(r) == r.id = g.ingredient_id
                m == SelectSeq(df_ings, Hit)
            IN  IF m = <<>>
                THEN <<[inci_name |-> NaNName, default_function |-> NaN, Count |-> g.Count]>>
                ELSE [k \in 1..Len(m) |->
                        [inci_name |-> m[k].inci_name,
                         default_function |-> m[k].default_function, Count |-> g.Count]]
    IN  Flatten([i \in 1..Len(grouped) |-> Of(grouped[i])])

\* a < b for two Python strings
RECURSIVE StrLess(_, _)
StrLess(a, b) ==
    IF b = <<>> THEN FALSE
    ELSE IF a = <<>> THEN TRUE
    ELSE IF Head(a) # Head(b) THEN Ord(Head(a)) < Ord(Head(b))
    ELSE StrLess(Tail(a), Tail(b))

\* row a sorts before row b: Count descending, then inci_name ascending, NaN last
Before(a, b) ==
    \/ a.Count > b.Count
    \/ /\ a.Count = b.Count
       /\ a.inci_name # NaNName
       /\ (b.inci_name = NaNName \/ StrLess(a.inci_name, b.inci_name))

\* sort_values(["Count", "inci_name"], ascending=[False, True])   (line 287)
RECURSIVE SortValues(_)
SortValues(rows) ==
    IF rows = <<>> THEN <<>>
    ELSE LET x == rows[Len(rows)]
             rest == SortValues(SubSeq(rows, 1, Len(rows) - 1))
             ahead == {i \in 1..Len(rest) : ~Before(x, rest[i])}
             k == IF ahead = {} THEN 0 ELSE MaxOf(ahead)
         IN  SubSeq(rest, 1, k) \o <<x>> \o SubSeq(rest, k + 1, Len(rest))

Frequency(dfs, s) ==
    SortValues(MergeIngredients(
        GroupBy(InScope(MergeProducts(dfs["Product_Ingredients"], dfs["Products"]), s)),
        dfs["Ingredients"]))

(***************************************************************************)
(* The inputs the model draws from.                                        *)
(***************************************************************************)
aqua == <<"a","q","u","a">>
Aqua == <<"A","q","u","a">>
glycerin == <<"g","l","y","c","e","r","i","n">>
Glycerin == <<"G","l","y","c","e","r","i","n">>
mica == <<"m","i","c","a">>
MICA == <<"M","I","C","A">>

\* what the user may paste into the INCI text area (line 181)
RawInputs ==
    { <<>>,
      Aqua,
      Glycerin \o <<",", " ">> \o Aqua,
      aqua \o <<",">> \o Aqua,
      MICA \o <<"\r", "\n">> \o mica \o <<",", " ">>,
      <<" ">> \o mica \o <<"\n">> \o glycerin }

\* what the user may type as the brand (line 175): it matches the brand "Ab" of
\* SeedSheet ignoring case, and no brand of EmptySheet
BrandInputs == { <<"a","b">> }

BlankForm == [submitted |-> FALSE, brand_name |-> <<>>, prod_name |-> "", inci_raw |-> <<>>]

\* the form as a run finds it (lines 172-182)
Forms ==
    {BlankForm} \cup
    [submitted : {TRUE}, brand_name : BrandInputs, prod_name : {"X"}, inci_raw : RawInputs]

BrandRow(id, name) == [id |-> id, name |-> name]

ProductRow(id, brand_id, name, cat, type) ==
    [id |-> id, brand_id |-> brand_id, product_name |-> name,
     category |-> cat, product_type |-> type, notes |-> ""]

IngredientRow(id, name, func) ==
    [id |-> id, inci_name |-> name, default_function |-> func, cas |-> ""]

JoinRow(id, product_id, ingredient_id, raw) ==
    [id |-> id, product_id |-> product_id, ingredient_id |-> ingredient_id,
     inci_name_raw |-> raw, function_override |-> "", percentage |-> "", notes |-> ""]

\* a spreadsheet whose four tabs hold only their header rows
EmptySheet == [t \in Tabs |-> <<>>]

\* a spreadsheet with one brand, one product and its one ingredient
SeedSheet ==
    [t \in Tabs |->
        CASE t = "Brands" -> <<BrandRow(1, <<"A","b">>)>>
          [] t = "Products" -> <<ProductRow(1, 1, "W", "Bodycare", "Body Wash")>>
          [] t = "Ingredients" -> <<IngredientRow(1, glycerin, "Humectant")>>
          [] t = "Product_Ingredients" -> <<JoinRow(1, 1, 1, Glycerin)>>]

(***************************************************************************)
(* The script run.                                                         *)
(***************************************************************************)
Init ==
    /\ sheet \in {EmptySheet, SeedSheet}
    /\ cache = EmptyCache
    /\ pc = "idle"
    /\ idx = 1
    /\ df = EmptyDf
    /\ form = BlankForm
    /\ sel = NoSel
    /\ tokens = <<>>
    /\ ui = {}
    /\ freq = <<>>
    /\ lastCall = NoCall
    /\ pre = sheet

\* a user interaction: the script is executed again from the top
StartRun ==
    /\ pc = "idle"
    /\ \E f \in Forms :
          /\ f.submitted => Len(sheet["Ingredients"]) < MaxRows
          /\ form' = f
    /\ pc' = "load"
    /\ idx' = 1
    /\ df' = EmptyDf
    /\ sel' = NoSel
    /\ tokens' = <<>>
    /\ ui' = {}
    /\ freq' = <<>>
    /\ pre' = sheet
    /\ UNCHANGED <<sheet, cache, lastCall>>

\* the "Refresh data" button (lines 137-139)
Refresh ==
    /\ pc = "idle"
    /\ cache' = ClearedCache
    /\ UNCHANGED <<sheet, pc, idx, df, form, sel, tokens, ui, freq, lastCall, pre>>

\* the 60 seconds of an entry have passed (ttl=60, line 85)
Expire ==
    /\ pc = "idle"
    /\ \E t \in Tabs :
          /\ cache[t].valid
          /\ cache' = [cache EXCEPT ![t] = NoEntry]
    /\ UNCHANGED <<sheet, pc, idx, df, form, sel, tokens, ui, freq, lastCall, pre>>

\* after a load_tab call of lines 143-146 has returned
Loaded ==
    IF idx = Len(TabOrder)
    THEN pc' = "filters" /\ idx' = idx
    ELSE pc' = "load" /\ idx' = idx + 1

\* load_tab answered from the cache (line 85)
LoadTabCached ==
    /\ pc = "load"
    /\ cache[TabOrder[idx]].valid
    /\ df' = [df EXCEPT ![TabOrder[idx]] = cache[TabOrder[idx]].rows]
    /\ Loaded
    /\ UNCHANGED <<sheet, cache, form, sel, tokens, ui, freq, lastCall, pre>>

\* load_tab run under with_backoff (lines 86-102); a failure is caught at line 147
\* and the run is stopped (st.stop, line 149)
LoadTabFresh ==
    /\ pc = "load"
    /\ ~cache[TabOrder[idx]].valid
    /\ \E outs \in Outcomes \X Outcomes :
          /\ lastCall' = Observed("load_tab", outs)
          /\ IF WithBackoff(outs).result = Ok
             THEN /\ cache' = [cache EXCEPT ![TabOrder[idx]] =
                                  [valid |-> TRUE, rows |-> sheet[TabOrder[idx]]]]
                  /\ df' = [df EXCEPT ![TabOrder[idx]] = sheet[TabOrder[idx]]]
                  /\ Loaded
                  /\ ui' = ui
             ELSE /\ ui' = ui \cup {CouldNotLoad}
                  /\ pc' = "idle"
                  /\ UNCHANGED <<cache, df, idx>>
    /\ UNCHANGED <<sheet, form, sel, tokens, freq, pre>>

\* the two selectboxes (lines 157-165)
SelectFilters ==
    /\ pc = "filters"
    /\ \E c \in CatOptions(df["Products"]) :
          \E t \in TypeOptions(df["Products"], Query(c)) :
             sel' = [cat |-> Query(c), ptype |-> Query(t)]
    /\ pc' = "form"
    /\ UNCHANGED <<sheet, cache, idx, df, form, tokens, ui, freq, lastCall, pre>>

\* the form was not submitted (line 184)
NoSubmit ==
    /\ pc = "form"
    /\ ~form.submitted
    /\ pc' = "explore"
    /\ UNCHANGED <<sheet, cache, idx, df, form, sel, tokens, ui, freq, lastCall, pre>>

\* the try block of lines 185-199 runs to its end: nothing is written to the
\* spreadsheet ("..." at line 187 is Python's Ellipsis, no statement appends a row)
SubmitOk ==
    /\ pc = "form"
    /\ form.submitted
    /\ tokens' = Tokenize(form.inci_raw)
    /\ cache' = ClearedCache
    /\ ui' = ui \cup {Saved(Len(tokens'))}
    /\ pc' = "explore"
    /\ UNCHANGED <<sheet, idx, df, form, sel, freq, lastCall, pre>>

\* A call of the try block raises: the only statements that can are
\* st.cache_data.clear() (line 198), which has dropped the in-memory entries by
\* then, and st.success (line 199).  The handler of lines 201-245 runs: st.error,
\* then the linking loop.  next_pid (lines 230, 238) is assigned nowhere in the
\* file, so the first iteration ends in a NameError at line 228, after the catalog
\* row of lines 213-218 has been appended when the token matched none; the
\* exception leaves the handler.  With no token the loop is skipped and lines
\* 244-245 clear the cache and report success.  The ids of the spreadsheet are
\* numerals, so the branch of lines 221-226 (a matched row without an id) is
\* never taken.
SubmitRaise ==
    /\ pc = "form"
    /\ form.submitted
    /\ tokens' = Tokenize(form.inci_raw)
    /\ cache' = ClearedCache
    /\ IF tokens' = <<>>
       THEN /\ ui' = ui \cup {FailedToSave, Saved(0)}
            /\ pc' = "explore"
            /\ UNCHANGED <<sheet, df, lastCall>>
       ELSE /\ ui' = ui \cup {FailedToSave, Uncaught}
            /\ pc' = "idle"
            /\ IF RowMatch(df["Ingredients"], tokens'[1]) = <<>>
               THEN \E outs \in Outcomes \X Outcomes :
                       /\ lastCall' = Observed("append_row", outs)
                       /\ IF WithBackoff(outs).result = Ok
                          THEN LET row == NewIngredient(NextId(df["Ingredients"]), tokens'[1])
                               IN  /\ sheet' = [sheet EXCEPT !["Ingredients"] =
                                                   Append(@, RowValues("Ingredients", row))]
                                   /\ df' = [df EXCEPT !["Ingredients"] = Append(@, row)]
                          ELSE UNCHANGED <<sheet, df>>
               ELSE UNCHANGED <<sheet, df, lastCall>>
    /\ UNCHANGED <<idx, form, sel, freq, pre>>

\* the explore view and the frequency table (lines 252-288)
Render ==
    /\ pc = "explore"
    /\ freq' = Frequency(df, sel)
    /\ pc' = "idle"
    /\ UNCHANGED <<sheet, cache, idx, df, form, sel, tokens, ui, lastCall, pre>>

Next ==
    \/ StartRun
    \/ Refresh
    \/ Expire
    \/ LoadTabCached
    \/ LoadTabFresh
    \/ SelectFilters
    \/ NoSubmit
    \/ SubmitOk
    \/ SubmitRaise
    \/ Render

Spec == Init /\ [][Next]_vars

(***************************************************************************)
(* The tokenizer on every short text: the submission of lines 184-199 run  *)
(* on each text over TokAlphabet of at most MaxLen characters.             *)
(***************************************************************************)
TokAlphabet == {"a", "b", " ", "\t", ",", "\n", "\r"}

Texts == UNION {[1..n -> TokAlphabet] : n \in 0..MaxLen}

InitTok ==
    /\ sheet = EmptySheet
    /\ cache = EmptyCache
    /\ pc = "form"
    /\ idx = Len(TabOrder)
    /\ df = EmptyDf
    /\ form \in [submitted : {TRUE}, brand_name : {<<"a","b">>}, prod_name : {"X"},
                 inci_raw : Texts]
    /\ sel = NoSel
    /\ tokens = <<>>
    /\ ui = {}
    /\ freq = <<>>
    /\ lastCall = NoCall
    /\ pre = sheet

SpecTok == InitTok /\ [][SubmitOk]_vars

(***************************************************************************)
(* The frequency table on every small join table: the rendering of lines   *)
(* 252-288 run on three products, two ingredients and each join table of   *)
(* at most MaxJoin rows, under each selection the sidebar offers.          *)
(***************************************************************************)
FreqProducts ==
    << ProductRow(1, 1, "W", "Bodycare", "Body Wash"),
       ProductRow(2, 1, "S", "Skincare", "Serum"),
       ProductRow(3, 1, "G", "Skincare", "Body Wash") >>

FreqCatalog ==
    << IngredientRow(1, glycerin, "Humectant"), IngredientRow(2, Aqua, "Solvent") >>

JoinTables ==
    UNION { { [i \in 1..n |-> JoinRow(i, f[i][1], f[i][2], FreqCatalog[f[i][2]].inci_name)] :
                f \in [1..n -> (1..Len(FreqProducts)) \X (1..Len(FreqCatalog))] } :
            n \in 0..MaxJoin }

InitFreq ==
    /\ \E j \in JoinTables :
          sheet = [t \in Tabs |->
                      CASE t = "Brands" -> <<BrandRow(1, <<"A","b">>)>>
                        [] t = "Products" -> FreqProducts
                        [] t = "Ingredients" -> FreqCatalog
                        [] t = "Product_Ingredients" -> j]
    /\ cache = [t \in Tabs |-> [valid |-> TRUE, rows |-> sheet[t]]]
    /\ pc = "explore"
    /\ idx = Len(TabOrder)
    /\ df = sheet
    /\ form = BlankForm
    /\ \E c \in CatOptions(df["Products"]) :
          \E t \in TypeOptions(df["Products"], Query(c)) :
             sel = [cat |-> Query(c), ptype |-> Query(t)]
    /\ tokens = <<>>
    /\ ui = {}
    /\ freq = <<>>
    /\ lastCall = NoCall
    /\ pre = sheet

SpecFreq == InitFreq /\ [][Render]_vars

(***************************************************************************)
(* Properties.                                                             *)
(***************************************************************************)
Catalog == sheet["Ingredients"]

\* the submission block has run to its end in this run
SubmissionDone == pc = "explore" /\ form.submitted

\* the rows of a tab appended since the run began
Added(t) == SubSeq(sheet[t], Len(pre[t]) + 1, Len(sheet[t]))

C2_BrandReusedOrCreated ==
    SubmissionDone =>
        LET known == {i \in 1..Len(pre["Brands"]) :
                         Lower(pre["Brands"][i].name) = Lower(form.brand_name)}
        IN  IF known # {}
            THEN /\ sheet["Brands"] = pre["Brands"]
                 /\ \E k \in 1..Len(Added("Products")) :
                       \E i \in known :
                          Added("Products")[k].brand_id = pre["Brands"][i].id
            ELSE /\ Len(Added("Brands")) = 1
                 /\ Added("Brands")[1].name = form.brand_name

\* C3: a finished submission of n tokens has appended exactly n Product_Ingredients
\* rows, in token order, each with the token as typed in inci_name_raw and the id of
\* the catalog row of that name (ignoring case) as ingredient_id.
C3_JoinRowPerToken ==
    SubmissionDone =>
        /\ Len(Added("Product_Ingredients")) = Len(tokens)
        /\ \A k \in 1..Len(Added("Product_Ingredients")) :
              LET row == Added("Product_Ingredients")[k] IN
              /\ row.inci_name_raw = tokens[k]
              /\ \E i \in 1..Len(Catalog) :
                    /\ Lower(Catalog[i].inci_name) = Lower(tokens[k])
                    /\ Catalog[i].id = row.ingredient_id

\* the pieces of a text between its commas, newlines and carriage returns, each cut
\* down to the span from its first to its last non-whitespace character, the pieces
\* without such a character left out
Pieces(text) ==
    LET seps == {i \in 1..Len(text) : text[i] \in {",", "\n", "\r"}}
        NextSep(b) == MinOf({j \in seps \cup {Len(text) + 1} : j > b})
        Core(b) == {i \in (b + 1)..(NextSep(b) - 1) : text[i] \notin Whitespace}
        starts == Ascending({b \in seps \cup {0} : Core(b) # {}})
    IN  [k \in 1..Len(starts) |->
            SubSeq(text, MinOf(Core(starts[k])), MaxOf(Core(starts[k])))]

\* C4: the tokens are exactly the non-empty trimmed pieces of the raw text in their
\* order; no token is empty, starts or ends with whitespace, or holds a comma, a
\* newline or a carriage return.
C4_TokensAreTrimmedPieces ==
    SubmissionDone =>
        /\ tokens = Pieces(form.inci_raw)
        /\ \A k \in 1..Len(tokens) :
              /\ tokens[k] # <<>>
              /\ tokens[k][1] \notin Whitespace
              /\ tokens[k][Len(tokens[k])] \notin Whitespace
              /\ \A i \in 1..Len(tokens[k]) : tokens[k][i] \notin {",", "\n", "\r"}

\* C4 witness: a text with a carriage return, a comma and blanks has been split into
\* its two pieces.
C4_Witness ==
    /\ SubmissionDone
    /\ form.inci_raw = <<"b", "\r", " ", "a">>
    /\ tokens = << <<"b">>, <<"a">> >>

\* C5: a step never changes a catalog row that exists, and a catalog row it appends
\* has the FUNCTION_MAP value of its lower-cased name as default_function, or the
\* empty string when the table has no such key.
C5_FunctionAssignedAtCreation ==
    [][ /\ Len(Catalog') >= Len(Catalog)
        /\ SubSeq(Catalog', 1, Len(Catalog)) = Catalog
        /\ \A i \in (Len(Catalog) + 1)..Len(Catalog') :
              LET row == Catalog'[i] IN
              /\ \A e \in FUNCTION_MAP :
                    e.key = Lower(row.inci_name) => row.default_function = e.val
              /\ (\A e \in FUNCTION_MAP : e.key # Lower(row.inci_name))
                    => row.default_function = ""
      ]_vars

\* C5 witness: a submission has created the catalog row of "Aqua" as a Solvent
\* beside an older row.
C5_Witness ==
    /\ Len(Catalog) > Len(pre["Ingredients"])
    /\ Len(pre["Ingredients"]) > 0
    /\ Catalog[Len(Catalog)].inci_name = Aqua
    /\ Catalog[Len(Catalog)].default_function = "Solvent"

\* C6: the Count of an ingredient in the frequency table is the number of distinct
\* products of the selected category and type that have a join row for it.
C6_CountIsDistinctProducts ==
    pc = "idle" =>
        \A g \in 1..Len(df["Ingredients"]) :
            LET ing == df["Ingredients"][g]
                prods == {p \in 1..Len(df["Products"]) :
                             /\ sel.cat \in {None, df["Products"][p].category}
                             /\ sel.ptype \in {None, df["Products"][p].product_type}
                             /\ \E j \in 1..Len(df["Product_Ingredients"]) :
                                   /\ df["Product_Ingredients"][j].product_id
                                         = df["Products"][p].id
                                   /\ df["Product_Ingredients"][j].ingredient_id = ing.id}
                shown == {k \in 1..Len(freq) : freq[k].inci_name = ing.inci_name}
            IN  /\ (prods # {}) <=> (shown # {})
                /\ \A k \in shown : freq[k].Count = Cardinality(prods)

\* C6 witness: a product in the selected category lists the same ingredient twice
\* and the table has been rendered.
C6_Witness ==
    /\ pc = "idle"
    /\ sel.cat = "Skincare"
    /\ freq # <<>>
    /\ \E i, j \in 1..Len(df["Product_Ingredients"]) :
          /\ i # j
          /\ df["Product_Ingredients"][i].product_id = 2
          /\ df["Product_Ingredients"][j].product_id = 2
          /\ df["Product_Ingredients"][i].ingredient_id
                = df["Product_Ingredients"][j].ingredient_id

\* an APIError whose text holds "429"
RateLimited(e) == e.kind = "APIError" /\ e.has429

\* C7: a call under with_backoff invokes the wrapped operation once, or twice when
\* the first invocation ended in a rate-limit error; the retry follows a sleep and
\* its outcome, failure included, is the caller's; any other error of the first
\* invocation is the caller's with no retry.
C7_RetryOnceOnRateLimit ==
    lastCall.fn # "none" =>
        /\ lastCall.invoked \in {1, 2}
        /\ Len(lastCall.outs) = lastCall.invoked
        /\ (lastCall.invoked = 2 <=> RateLimited(lastCall.outs[1]))
        /\ (lastCall.slept <=> lastCall.invoked = 2)
        /\ lastCall.result = lastCall.outs[lastCall.invoked]

\* C7 witness: an append_row call was retried after a rate-limit error and the
\* retry's own rate-limit error reached the caller.
C7_Witness ==
    /\ lastCall.fn = "append_row"
    /\ lastCall.invoked = 2
    /\ RateLimited(lastCall.result)
    /\ Uncaught \in ui
    /\ sheet = pre

C10_SuccessOnlyAfterRowsStored ==
    \A m \in ui :
        m.kind = "success" =>
            /\ Len(Added("Products")) = 1
            /\ Len(Added("Product_Ingredients")) = m.n

====
